---- MODULE Spec2Model ----
(***************************************************************************)
(* A model of weightbot.py: a Telegram bot that stores weight readings in  *)
(* a CSV file and answers with statistics.                                 *)
(*                                                                         *)
(* Modelling conventions                                                   *)
(*   - a message text is a sequence of one-character strings;              *)
(*   - a float is a record [kind, n, d]: kind "num" is the rational n/d    *)
(*     (d > 0), kind "inf" is n * infinity (n = 1 or -1), kind "nan" is    *)
(*     not-a-number; rounding of binary floating point is not modelled;    *)
(*   - a timestamp is a day number; day 0 is a Monday;                     *)
(*   - the application handles one update at a time (the default of        *)
(*     Application.builder().build()), so a handler is one action; the     *)
(*     order of the steps inside it is kept in the trace it leaves.        *)
(***************************************************************************)
EXTENDS Integers, Sequences, FiniteSets, TLC

VARIABLES config, proc, csvfile, clock, ticks, tmpfiles, last, written, nAccepted

vars == <<config, proc, csvfile, clock, ticks, tmpfiles, last, written, nAccepted>>

(***************************************************************************)
(* Bounds of the model.                                                    *)
(***************************************************************************)
\* accepted weight messages that may be handled
MaxAccepted == 2
\* times the clock may advance
MaxTicks == 1

(***************************************************************************)
(* Program constants.                                                      *)
(***************************************************************************)
WeightLow == 50
WeightHigh == 150
WeekWindowDays == 7
RecentWindowDays == 100
RecentBucketDays == 10
MonthsPerYear == 12
DaysPerYear == 365

(***************************************************************************)
(* float(): the part of Python's float grammar over the characters the     *)
(* model's texts use: [sign] (digits [. digits] | . digits | nan | inf).   *)
(***************************************************************************)
Digits == {"0", "1", "2", "3", "4", "5", "6", "7", "8", "9"}

DigitVal(ch) ==
    CASE ch = "0" -> 0 [] ch = "1" -> 1 [] ch = "2" -> 2 [] ch = "3" -> 3
      [] ch = "4" -> 4 [] ch = "5" -> 5 [] ch = "6" -> 6 [] ch = "7" -> 7
      [] ch = "8" -> 8 [] ch = "9" -> 9

AllDigits(s) == \A i \in 1..Len(s) : s[i] \in Digits

RECURSIVE DigitsVal(_)
DigitsVal(s) ==
    IF s = <<>> THEN 0
    ELSE 10 * DigitsVal(SubSeq(s, 1, Len(s) - 1)) + DigitVal(s[Len(s)])

RECURSIVE Pow10(_)
Pow10(k) == IF k = 0 THEN 1 ELSE 10 * Pow10(k - 1)

RECURSIVE Gcd(_, _)
Gcd(a, b) == IF b = 0 THEN a ELSE Gcd(b, a % b)

\* the rational n/d in lowest terms
Num(n, d) ==
    LET g == Gcd(IF n < 0 THEN -n ELSE n, d)
    IN  [kind |-> "num", n |-> n \div g, d |-> d \div g]
Inf(sign) == [kind |-> "inf", n |-> sign, d |-> 1]
NaN == [kind |-> "nan", n |-> 0, d |-> 1]
ValueError == [kind |-> "ValueError", n |-> 0, d |-> 1]

\* the place of the decimal point in body, Len(body) + 1 when it has none
DotAt(body) ==
    IF \E i \in 1..Len(body) : body[i] = "."
    THEN CHOOSE i \in 1..Len(body) : body[i] = "."
    ELSE Len(body) + 1

ParseDecimal(sign, ipart, fpart) ==
    IF AllDigits(ipart) /\ AllDigits(fpart) /\ Len(ipart) + Len(fpart) > 0
    THEN Num(sign * (DigitsVal(ipart) * Pow10(Len(fpart)) + DigitsVal(fpart)),
             Pow10(Len(fpart)))
    ELSE ValueError

ParseUnsigned(sign, body) ==
    IF body = <<"n", "a", "n">> THEN NaN
    ELSE IF body = <<"i", "n", "f">> THEN Inf(sign)
    ELSE ParseDecimal(sign, SubSeq(body, 1, DotAt(body) - 1),
                      SubSeq(body, DotAt(body) + 1, Len(body)))

ParseFloat(text) ==
    IF Len(text) > 0 /\ text[1] = "-" THEN ParseUnsigned(-1, Tail(text))
    ELSE IF Len(text) > 0 /\ text[1] = "+" THEN ParseUnsigned(1, Tail(text))
    ELSE ParseUnsigned(1, text)

\* a < b on floats: every comparison with NaN is false
FloatLt(a, b) ==
    CASE a.kind = "nan" \/ b.kind = "nan" -> FALSE
      [] a.kind = "inf" /\ b.kind = "inf" -> a.n < b.n
      [] a.kind = "inf" -> a.n < 0
      [] b.kind = "inf" -> b.n > 0
      [] OTHER -> a.n * b.d < b.n * a.d

FloatLe(a, b) ==
    CASE a.kind = "nan" \/ b.kind = "nan" -> FALSE
      [] a.kind = "inf" /\ b.kind = "inf" -> a.n <= b.n
      [] a.kind = "inf" -> a.n < 0
      [] b.kind = "inf" -> b.n > 0
      [] OTHER -> a.n * b.d <= b.n * a.d

\* finite arithmetic (the statistics only ever see accepted, finite weights)
FloatAdd(a, b) == Num(a.n * b.d + b.n * a.d, a.d * b.d)
FloatSub(a, b) == Num(a.n * b.d - b.n * a.d, a.d * b.d)
FloatMul(a, b) == Num(a.n * b.n, a.d * b.d)
FloatDivInt(a, k) == Num(a.n, a.d * k)

(***************************************************************************)
(* The configuration: the keys of the [weightbot] section that are set,    *)
(* with their texts.                                                       *)
(***************************************************************************)
Keys == {"token", "csvfile", "goal"}

\* goal rates a configuration may give (kg per month)
GoalTexts == {<<"-", "1">>, <<"0", ".", "5">>}

Unset == <<"u", "n", "s", "e", "t">>

Configs ==
    {[k \in Keys |-> IF k \in ks THEN (IF k = "goal" THEN g ELSE <<"x">>) ELSE Unset] :
        ks \in SUBSET Keys, g \in GoalTexts}

HasKey(cfg, k) == cfg[k] # Unset

(***************************************************************************)
(* The store: a CSV file, absent or a sequence of lines.  The header line  *)
(* `timestamp,weight` is the line of kind "header"; a data line carries    *)
(* the timestamp and the weight text as written.                           *)
(***************************************************************************)
HeaderRow == [kind |-> "header", ts |-> 0, weight |-> <<>>]
DataRow(ts, weight) == [kind |-> "data", ts |-> ts, weight |-> weight]

AbsentFile == [exists |-> FALSE, rows |-> <<>>]
EmptyFile == [exists |-> TRUE, rows |-> <<>>]

\* Path.stat().st_size: every line has at least its line terminator
StSize(file) == Len(file.rows)

\* open(mode="w") then writerow(["timestamp", "weight"])
WriteHeader(file) == [exists |-> TRUE, rows |-> <<HeaderRow>>]

\* open(mode="a") then writerow([pendulum.now(), weight])
AppendRowWrongMode(file, now, weight) ==
    [exists |-> TRUE, rows |-> <<DataRow(now, weight)>>]

AppendRow(file, now, weight) ==
    [exists |-> TRUE, rows |-> Append(file.rows, DataRow(now, weight))]

(***************************************************************************)
(* WeightFilter.filter                                                     *)
(***************************************************************************)
InBandClosed(w) ==
    FloatLe(Num(WeightLow, 1), w) /\ FloatLe(w, Num(WeightHigh, 1))

InBand(w) == FloatLt(Num(WeightLow, 1), w) /\ FloatLt(w, Num(WeightHigh, 1))

\* "accept", "reject" (ValueError caught), or "TypeError" (text is None)
NoText == <<"N", "o", "n", "e">>

WeightFilter(text) ==
    IF text = NoText THEN "TypeError"
    ELSE LET w == ParseFloat(text)
         IN  IF w.kind = "ValueError" THEN "reject"
             ELSE IF InBand(w) THEN "accept" ELSE "reject"

(***************************************************************************)
(* The statistics of bot_stats (lines 110-141).                            *)
(***************************************************************************)
\* pd.read_csv: the first line is the header, whatever it holds
ReadCsv(file) ==
    [i \in 1..(Len(file.rows) - 1) |->
        [ts |-> file.rows[i + 1].ts, weight |-> ParseFloat(file.rows[i + 1].weight)]]

\* DataFrame.last("<days>d"): the rows later than the last row's time minus days
LastDays(data, days) ==
    IF data = <<>> THEN data
    ELSE SelectSeq(data, LAMBDA r : r.ts > data[Len(data)].ts - days)

RECURSIVE SumWeights(_)
SumWeights(data) ==
    IF data = <<>> THEN Num(0, 1)
    ELSE FloatAdd(SumWeights(SubSeq(data, 1, Len(data) - 1)), data[Len(data)].weight)

\* Series.mean(): NaN on no rows
Mean(data) ==
    IF data = <<>> THEN NaN ELSE FloatDivInt(SumWeights(data), Len(data))

\* Series.idxmin() / idxmax(): the first row holding the extreme
IdxMin(data) ==
    CHOOSE i \in 1..Len(data) :
        /\ \A j \in 1..Len(data) : FloatLe(data[i].weight, data[j].weight)
        /\ \A j \in 1..(i - 1) : ~FloatLe(data[j].weight, data[i].weight)

IdxMax(data) ==
    CHOOSE i \in 1..Len(data) :
        /\ \A j \in 1..Len(data) : FloatLe(data[j].weight, data[i].weight)
        /\ \A j \in 1..(i - 1) : ~FloatLe(data[i].weight, data[j].weight)

\* resample(rule, kind="period"): "W" is the calendar week, "10d" counts
\* ten-day periods from the day of the first row
Bucket(resample, data, ts) ==
    IF resample = "W" THEN ts \div 7
    ELSE (ts - data[1].ts) \div RecentBucketDays

BucketMean(resample, data, ts) ==
    Mean(SelectSeq(data,
        LAMBDA r : Bucket(resample, data, r.ts) = Bucket(resample, data, ts)))

\* weight_orig + 12 * float(CONFIG["goal"]) / 365 * weight_loss_period
WeightGoalOffByOne(orig, goalrate, period) ==
    FloatAdd(orig, FloatDivInt(FloatMul(Num(MonthsPerYear * (period + 1), 1), goalrate),
                               DaysPerYear))

WeightGoal(orig, goalrate, period) ==
    FloatAdd(orig, FloatDivInt(FloatMul(Num(MonthsPerYear * period, 1), goalrate),
                               DaysPerYear))

NoStats ==
    [window |-> <<>>, weekmean |-> NaN, min |-> NaN, max |-> NaN, orig |-> NaN,
     now |-> NaN, loss |-> NaN, period |-> 0, goal |-> NaN, style |-> "-",
     gainedlost |-> "-"]

\* the error lines 110-141 raise, "none" when they complete: read_csv on a
\* missing or empty file, idxmin on no rows, CONFIG["goal"], float()
StatsErrorEmptyIgnored(cfg, file) ==
    IF ~file.exists THEN "FileNotFoundError"
    ELSE IF file.rows = <<>> THEN "EmptyDataError"
    ELSE IF ~HasKey(cfg, "goal") THEN "KeyError"
    ELSE IF ParseFloat(cfg["goal"]).kind = "ValueError" THEN "ValueError"
    ELSE "none"

StatsError(cfg, file) ==
    IF ~file.exists THEN "FileNotFoundError"
    ELSE IF file.rows = <<>> THEN "EmptyDataError"
    ELSE IF ReadCsv(file) = <<>> THEN "ValueError"
    ELSE IF ~HasKey(cfg, "goal") THEN "KeyError"
    ELSE IF ParseFloat(cfg["goal"]).kind = "ValueError" THEN "ValueError"
    ELSE "none"

\* lines 117-141 and the choices of lines 145 and 177 on rows all, window data
Summary(all, data, resample, goalrate) ==
    LET orig == BucketMean(resample, data, data[1].ts)
        now == BucketMean(resample, data, data[Len(data)].ts)
        period == data[Len(data)].ts - data[1].ts
    IN  [window |-> data,
         weekmean |-> Mean(LastDays(all, WeekWindowDays)),
         min |-> data[IdxMin(data)].weight,
         max |-> data[IdxMax(data)].weight,
         orig |-> orig, now |-> now, loss |-> FloatSub(orig, now),
         period |-> period,
         goal |-> WeightGoal(orig, goalrate, period),
         style |-> IF FloatLe(now, WeightGoal(orig, goalrate, period))
                   THEN "g" ELSE "r",
         gainedlost |-> IF FloatLe(Num(0, 1), FloatSub(orig, now))
                        THEN "lost" ELSE "gained"]

\* if last: data = data.last(last)
Window(all, lastdays) == IF lastdays > 0 THEN LastDays(all, lastdays) ELSE all

ComputeStats(cfg, file, lastdays, resample) ==
    IF ReadCsv(file) = <<>> THEN NoStats
    ELSE CHOOSE r \in {Summary(all, data, resample, ParseFloat(cfg["goal"])) :
                          all \in {ReadCsv(file)},
                          data \in {Window(ReadCsv(file), lastdays)}} : TRUE

(***************************************************************************)
(* A handler's run.  c is what it has done so far: the fault the run meets *)
(* (the source line of the call that raises, "none" for no fault), the     *)
(* error raised, the trace of the steps carried out, the coroutines        *)
(* created but never awaited, the store, the temporary files.              *)
(***************************************************************************)
\* the calls bot_weight makes that may raise: its own and those of bot_stats
FaultSites ==
    {"none", "L85", "L90", "L91", "L105", "L110", "L163", "L169", "L175", "L176",
     "L178"}

\* the calls bot_stats makes that may raise
StatsFaultSites == {"none", "L105", "L110", "L163", "L169", "L175", "L176", "L178"}

NewRun(file, tmp, fault) ==
    [fault |-> fault, err |-> "none", trace |-> <<>>, unawaited |-> <<>>,
     file |-> file, tmp |-> tmp, stats |-> NoStats]

\* the run c continued by a step: the step acts on what c has come to
Run(c, step(_)) == CHOOSE r \in {step(x) : x \in {c}} : TRUE

\* a step that is skipped once an error is raised
Then(c, d) == IF c.err # "none" THEN c ELSE d

Emit(c, ev) == [c EXCEPT !.trace = Append(@, ev)]

Raise(c, e) == [c EXCEPT !.err = e]

\* await <transport call>: the call is carried out, or raises at the fault
Await(c, site, ev) ==
    Then(c, IF c.fault = site THEN Raise(c, "NetworkError") ELSE Emit(c, ev))

\* <transport call> without await: a coroutine object that is dropped
NotAwaited(c, site, ev) == Then(c, [c EXCEPT !.unawaited = Append(@, ev)])

(***************************************************************************)
(* bot_start (lines 69-73)                                                 *)
(***************************************************************************)
bot_start(c) == NotAwaited(c, "L71", "reply:welcome")

(***************************************************************************)
(* bot_error (lines 76-80)                                                 *)
(***************************************************************************)
bot_error(c) ==
    [c EXCEPT !.trace = Append(@, "log:warning"),
              !.unawaited = Append(@, "reply:error")]

(***************************************************************************)
(* store_weight (lines 185-191)                                            *)
(***************************************************************************)
store_weight(c, now, weight) ==
    Then(c, IF c.fault = "L90" THEN Raise(c, "OSError")
            ELSE Emit([c EXCEPT !.file = AppendRow(@, now, weight)], "append"))

(***************************************************************************)
(* bot_stats (lines 97-182); lastdays = 0 is last=None                     *)
(***************************************************************************)
\* lines 110-141
stats_compute(c, cfg, lastdays, resample) ==
    Then(c, IF c.fault = "L110" THEN Raise(c, "OSError")
            ELSE IF StatsError(cfg, c.file) # "none"
                 THEN Raise(Emit(c, "read"), StatsError(cfg, c.file))
                 ELSE Emit([c EXCEPT !.stats =
                               ComputeStats(cfg, c.file, lastdays, resample)],
                           "read"))

\* lines 143-161
stats_plot(c, goal) ==
    Then(c, IF goal THEN Emit(Emit(c, "plot:" \o c.stats.style), "plot:goal")
            ELSE Emit(c, "plot:" \o c.stats.style))

\* entering the `with` block of line 174
TempFileEnter(c) ==
    Then(c, Emit([c EXCEPT !.tmp = @ \cup {"figfile.png"}], "tmp:create"))

\* fig.savefig (line 175)
savefig(c) ==
    Then(c, IF c.fault = "L175" THEN Raise(c, "OSError") ELSE Emit(c, "savefig"))

\* leaving the `with` block: the file is deleted, error or not
TempFileExitOnSuccessOnly(c) ==
    IF "figfile.png" \notin c.tmp \/ c.err # "none" THEN c
    ELSE Emit([c EXCEPT !.tmp = @ \ {"figfile.png"}], "tmp:delete")

TempFileExit(c) ==
    IF "figfile.png" \notin c.tmp THEN c
    ELSE Emit([c EXCEPT !.tmp = @ \ {"figfile.png"}], "tmp:delete")

\* lines 174-176
stats_photo(c) ==
    LET s1(x) == TempFileEnter(x)
        s2(x) == savefig(x)
        s3(x) == Await(x, "L176", "reply:photo")
        s4(x) == TempFileExit(x)
    IN  Run(Run(Run(Run(c, s1), s2), s3), s4)

\* lines 177-181
reply_gainedlost(c) == Await(c, "L178", "reply:" \o c.stats.gainedlost)

\* line 182
close_fig(c) == Then(c, Emit(c, "plot:close"))

bot_stats(c, cfg, lastdays, resample, goal) ==
    LET s1(x) == Await(x, "L105", "typing")
        s2(x) == stats_compute(x, cfg, lastdays, resample)
        s3(x) == stats_plot(x, goal)
        s4(x) == Await(x, "L163", "reply:stats")
        s5(x) == Await(x, "L169", "typing")
        s6(x) == stats_photo(x)
        s7(x) == reply_gainedlost(x)
        s8(x) == close_fig(x)
    IN  Run(Run(Run(Run(Run(Run(Run(Run(c, s1), s2), s3), s4), s5), s6), s7), s8)

(***************************************************************************)
(* bot_weight (lines 83-92)                                                *)
(***************************************************************************)
bot_weight_StatsFirst(c, cfg, now, weight) ==
    LET s1(x) == Await(x, "L85", "typing")
        s2(x) == bot_stats(x, cfg, RecentWindowDays, "10d", FALSE)
        s3(x) == store_weight(x, now, weight)
        s4(x) == Await(x, "L91", "reply:stored")
    IN  Run(Run(Run(Run(c, s1), s2), s3), s4)

bot_weight(c, cfg, now, weight) ==
    LET s1(x) == Await(x, "L85", "typing")
        s2(x) == store_weight(x, now, weight)
        s3(x) == Await(x, "L91", "reply:stored")
        s4(x) == bot_stats(x, cfg, RecentWindowDays, "10d", FALSE)
    IN  Run(Run(Run(Run(c, s1), s2), s3), s4)

(***************************************************************************)
(* The updates the transport delivers.                                     *)
(***************************************************************************)
Texts ==
    {<<"a", "b", "c">>, <<"n", "a", "n">>, <<"i", "n", "f">>,
     <<"-", "i", "n", "f">>, <<"4", "9", ".", "9">>, <<"5", "0">>,
     <<"7", "5">>, <<"1", "4", "9", ".", "9">>, <<"1", "5", "0">>,
     <<"1", "5", "0", ".", "1">>}

\* days the clock may advance at once
Advances == {12, 101}

NoUpdate(kind) ==
    [kind |-> kind, text |-> <<>>, err |-> "none", trace |-> <<>>,
     unawaited |-> <<>>, stats |-> NoStats, rowsBefore |-> 0]

\* Application.process_update: an error a handler (or a filter) raises goes to
\* the error handler; the application goes on with the next update
Dispatched(c) == Run(c, LAMBDA x : IF x.err # "none" THEN bot_error(x) ELSE x)

Outcome(kind, text, c, file) ==
    [kind |-> kind, text |-> text, err |-> c.err, trace |-> c.trace,
     unawaited |-> c.unawaited, stats |-> c.stats, rowsBefore |-> Len(file.rows)]

DataRows(file) == IF file.rows = <<>> THEN <<>> ELSE Tail(file.rows)

Init ==
    /\ config \in Configs
    /\ proc = "down"
    /\ csvfile \in {AbsentFile, EmptyFile}
    /\ clock = 0
    /\ ticks = 0
    /\ tmpfiles = {}
    /\ last = NoUpdate("none")
    /\ written = <<>>
    /\ nAccepted = 0

\* main, lines 197-202: the header is written when the file is absent or empty
InitStoreAlways(file) == WriteHeader(file)

InitStore(file) ==
    IF ~file.exists \/ StSize(file) = 0 THEN WriteHeader(file) ELSE file

\* main (lines 194-210)
Startup ==
    /\ proc = "down"
    /\ IF ~HasKey(config, "csvfile")
       THEN proc' = "crashed" /\ csvfile' = csvfile
       ELSE /\ csvfile' = InitStore(csvfile)
            /\ proc' = IF ~HasKey(config, "token") THEN "crashed" ELSE "polling"
    /\ last' = NoUpdate("startup")
    /\ UNCHANGED <<config, clock, ticks, tmpfiles, written, nAccepted>>

\* the process is stopped (and may be started again)
Stop ==
    /\ proc = "polling"
    /\ proc' = "down"
    /\ last' = NoUpdate("stop")
    /\ UNCHANGED <<config, csvfile, clock, ticks, tmpfiles, written, nAccepted>>

\* time passes
Tick ==
    /\ ticks < MaxTicks
    /\ \E d \in Advances : clock' = clock + d
    /\ ticks' = ticks + 1
    /\ UNCHANGED <<config, proc, csvfile, tmpfiles, last, written, nAccepted>>

\* CommandHandler("start", bot_start)
HandleStart ==
    /\ proc = "polling"
    /\ \E c \in {Dispatched(bot_start(NewRun(csvfile, tmpfiles, "none")))} :
           /\ csvfile' = c.file
           /\ tmpfiles' = c.tmp
           /\ last' = Outcome("start", <<>>, c, csvfile)
    /\ UNCHANGED <<config, proc, clock, ticks, written, nAccepted>>

\* CommandHandler("stats", bot_stats)
HandleStats ==
    /\ proc = "polling"
    /\ \E fault \in StatsFaultSites :
         \E c \in {Dispatched(bot_stats(NewRun(csvfile, tmpfiles, fault),
                                         config, 0, "W", TRUE))} :
             /\ csvfile' = c.file
             /\ tmpfiles' = c.tmp
             /\ last' = Outcome("stats", <<>>, c, csvfile)
    /\ UNCHANGED <<config, proc, clock, ticks, written, nAccepted>>

\* MessageHandler(WeightFilter(), bot_weight): a text the filter accepts
HandleWeight ==
    /\ proc = "polling"
    /\ nAccepted < MaxAccepted
    /\ \E text \in Texts, fault \in FaultSites :
         /\ WeightFilter(text) = "accept"
         /\ \E c \in {Dispatched(bot_weight(NewRun(csvfile, tmpfiles, fault),
                                             config, clock, text))} :
                /\ csvfile' = c.file
                /\ tmpfiles' = c.tmp
                /\ last' = Outcome("weight", text, c, csvfile)
                /\ written' = IF \E i \in 1..Len(c.trace) : c.trace[i] = "append"
                              THEN Append(written, DataRow(clock, text))
                              ELSE written
    /\ nAccepted' = nAccepted + 1
    /\ UNCHANGED <<config, proc, clock, ticks>>

\* a text the filter rejects matches no handler
HandleRejected ==
    /\ proc = "polling"
    /\ \E text \in Texts :
         /\ WeightFilter(text) = "reject"
         /\ last' = [NoUpdate("rejected") EXCEPT !.text = text,
                                                 !.rowsBefore = Len(csvfile.rows)]
    /\ UNCHANGED <<config, proc, csvfile, clock, ticks, tmpfiles, written, nAccepted>>

\* a message without text (a photo): float(None) raises TypeError in the filter
HandleNoText ==
    /\ proc = "polling"
    /\ WeightFilter(NoText) = "TypeError"
    /\ \E c \in {Dispatched(Raise(NewRun(csvfile, tmpfiles, "none"), "TypeError"))} :
           /\ csvfile' = c.file
           /\ tmpfiles' = c.tmp
           /\ last' = Outcome("notext", NoText, c, csvfile)
    /\ UNCHANGED <<config, proc, clock, ticks, written, nAccepted>>

Next ==
    \/ Startup
    \/ Stop
    \/ Tick
    \/ HandleStart
    \/ HandleStats
    \/ HandleWeight
    \/ HandleRejected
    \/ HandleNoText

Spec == Init /\ [][Next]_vars

(***************************************************************************)
(* Properties.                                                             *)
(***************************************************************************)
\* two finite floats are the same number
FloatEq(a, b) == a.kind = "num" /\ b.kind = "num" /\ a.n * b.d = b.n * a.d

Has(trace, ev) == \E i \in 1..Len(trace) : trace[i] = ev

\* every ev1 of the trace comes before every ev2 of it
Before(trace, ev1, ev2) ==
    \A i, j \in 1..Len(trace) : trace[i] = ev1 /\ trace[j] = ev2 => i < j

Replies == {"reply:welcome", "reply:stored", "reply:stats", "reply:photo",
            "reply:lost", "reply:gained", "reply:error"}

StatsReplies == {"reply:stats", "reply:photo", "reply:lost", "reply:gained"}

HasAny(trace, evs) == \E i \in 1..Len(trace) : trace[i] \in evs

\* C1: every data row of the store holds a text that parses as a number w
\* with 50 < w < 150, and a text the filter does not accept (non-numeric,
\* NaN, an infinity, 50, 150, anything outside) leaves the store as it was
\* and runs no handler.
C1_OnlyInBandStored ==
    /\ \A i \in 1..Len(DataRows(csvfile)) :
         LET row == DataRows(csvfile)[i]
             w == ParseFloat(row.weight)
         IN  /\ row.kind = "data"
             /\ w.kind = "num"
             /\ WeightLow * w.d < w.n
             /\ w.n < WeightHigh * w.d
    /\ last.kind \in {"rejected", "notext"} =>
         /\ Len(csvfile.rows) = last.rowsBefore
         /\ ~Has(last.trace, "append")
    /\ last.kind = "rejected" => last.trace = <<>>

C1_Witness ==
    /\ last.kind = "rejected"
    /\ last.text = <<"5", "0">>
    /\ Len(DataRows(csvfile)) >= 1

\* C2: whenever a handler fails, the error is logged, the failure notice is
\* delivered to the user, and the process keeps polling.
C2_ErrorNoticeDelivered ==
    last.err # "none" =>
        /\ Has(last.trace, "log:warning")
        /\ Has(last.trace, "reply:error")
        /\ proc = "polling"

\* C3 as stated: the store holds exactly as many data rows as accepted
\* weight messages were handled.
C3_RowPerAcceptedMessage == Len(DataRows(csvfile)) = nAccepted

\* C3 as amended: the data rows of the store are exactly the rows appended
\* for the accepted weight messages whose append was carried out, in the
\* order handled, each with the weight text as submitted; reading them back
\* gives the same timestamps and the weights those texts denote.
C3_AppendOnlyRoundTrip ==
    /\ DataRows(csvfile) = written
    /\ Len(written) <= nAccepted
    /\ Len(ReadCsv(csvfile)) = Len(written)
    /\ \A i \in 1..Len(written) :
         /\ ReadCsv(csvfile)[i].ts = written[i].ts
         /\ ReadCsv(csvfile)[i].weight = ParseFloat(written[i].weight)
         /\ WeightFilter(written[i].weight) = "accept"
    /\ \A i \in 1..(Len(written) - 1) : written[i].ts <= written[i + 1].ts

C3_Witness ==
    /\ Len(written) = 2
    /\ written[1].weight # written[2].weight
    /\ last.kind = "stats"
    /\ last.err = "none"

\* C4: startup writes the header only when the store is absent or empty; on
\* an existing non-empty store it changes nothing; while the bot polls the
\* first row of the store is the header.
C4_StartupIdempotent ==
    /\ [](proc = "polling" =>
            csvfile.exists /\ Len(csvfile.rows) >= 1 /\ csvfile.rows[1] = HeaderRow)
    /\ [][proc = "down" /\ proc' # "down" =>
            IF csvfile.exists /\ StSize(csvfile) > 0
            THEN csvfile' = csvfile
            ELSE csvfile' \in {csvfile, [exists |-> TRUE, rows |-> <<HeaderRow>>]}]_vars

C4_Witness ==
    /\ last.kind = "startup"
    /\ proc = "polling"
    /\ Len(csvfile.rows) >= 2
    /\ csvfile.rows[1] = HeaderRow

\* C5: an accepted weight message is appended before the confirmation and
\* before the statistics, which run over the last 100 days without the goal
\* overlay and include the reading just appended; when the append does not
\* happen nothing is replied.  The stats command appends nothing and runs
\* over the whole history with the goal overlay.
C5_AppendThenStats ==
    /\ last.kind = "weight" =>
         /\ \A ev \in {"reply:stored", "read"} \cup StatsReplies :
              /\ Before(last.trace, "append", ev)
              /\ Has(last.trace, ev) => Has(last.trace, "append")
         /\ Before(last.trace, "reply:stored", "read")
         /\ ~Has(last.trace, "plot:goal")
         /\ ~Has(last.trace, "append") => ~HasAny(last.trace, Replies)
         /\ Has(last.trace, "append") => Len(csvfile.rows) = last.rowsBefore + 1
         /\ last.stats.window # <<>> =>
              LET all == ReadCsv(csvfile)
                  win == last.stats.window
              IN  /\ win[Len(win)] = all[Len(all)]
                  /\ win[Len(win)].weight = ParseFloat(last.text)
                  /\ \A i \in 1..Len(all) :
                       (\E j \in 1..Len(win) : win[j] = all[i])
                           <=> all[i].ts > all[Len(all)].ts - RecentWindowDays
    /\ last.kind = "stats" =>
         /\ ~Has(last.trace, "append")
         /\ Len(csvfile.rows) = last.rowsBefore
         /\ last.stats.window # <<>> =>
              /\ last.stats.window = ReadCsv(csvfile)
              /\ Has(last.trace, "plot:goal")

C5_Witness ==
    /\ last.kind = "weight"
    /\ last.err = "none"
    /\ Len(last.stats.window) = 2
    /\ last.stats.period > 0
    /\ last.stats.gainedlost = "gained"

\* C6: a handled start command has the welcome text sent before the handler
\* completes, and leaves the store as it was.
C6_WelcomeSent ==
    last.kind = "start" =>
        /\ Has(last.trace, "reply:welcome")
        /\ Len(csvfile.rows) = last.rowsBefore

\* C7: no temporary chart file is left once a request has finished: a file
\* that was created is deleted, whether the upload succeeded or not.
C7_TempFileScoped ==
    /\ tmpfiles = {}
    /\ \A i \in 1..Len(last.trace) :
         last.trace[i] = "tmp:create" =>
             \E j \in (i + 1)..Len(last.trace) : last.trace[j] = "tmp:delete"

C7_Witness ==
    /\ Has(last.trace, "tmp:create")
    /\ Has(last.trace, "savefig")
    /\ ~Has(last.trace, "reply:photo")
    /\ last.err = "NetworkError"

\* C8: a statistics request on a store that holds only the header ends in
\* an error: nothing is plotted and no statistics reply is sent.
C8_HeaderOnlyStatsFails ==
    last.kind = "stats" /\ last.rowsBefore = 1 =>
        /\ last.err # "none"
        /\ ~HasAny(last.trace, StatsReplies)
        /\ \A i \in 1..Len(last.trace) :
             last.trace[i] \in {"typing", "read", "log:warning"}

C8_Witness ==
    /\ last.kind = "stats"
    /\ last.rowsBefore = 1
    /\ last.err = "ValueError"
    /\ HasKey(config, "goal")

\* C9: the bot never polls for updates with a required configuration key
\* missing.
C9_MissingKeyFatal ==
    proc = "polling" => \A k \in Keys : HasKey(config, k)

====
